---------------------------- MODULE Spec2Model ----------------------------
(***************************************************************************)
(* gfx-mesh: vertex-format compatibility, the buffer search and the        *)
(* binding protocol of Mesh (src/src/mesh.rs).                             *)
(*                                                                         *)
(* Six specifications share this module:                                   *)
(*   SpecCompat  applies is_compatible to a pair of vertex formats,        *)
(*   SpecFind    applies find_compatible_buffer to a window of buffers,    *)
(*   Spec        runs Mesh::bind, one loop iteration per step,             *)
(*   SpecBuilder applies the adders and setters of MeshBuilder,            *)
(*   SpecBuild   runs MeshBuilder::build, one layer per step, and          *)
(*               Mesh::dispose, against a factory that may fail,           *)
(*   SpecDraw    runs Bind::draw against a recording encoder.              *)
(* Indices are 0-based as in the Rust source; TLA+ sequences are 1-based,  *)
(* so element i of a Rust slice s is s[i + 1] here.                        *)
(***************************************************************************)
EXTENDS Integers, Sequences, FiniteSets

VARIABLES
    left, right, compat, cpc,                  \* is_compatible: arguments, result, position
    window, wanted, found, fpc,                \* find_compatible_buffer: arguments, result, position
    vbufs, ibuf, formats, debug,               \* Mesh::bind: the mesh, the requested formats, the build profile
    vertex, next, vertex_count, pos, pc,       \* Mesh::bind: binding set, locals, loop position, control
    result, matched,                           \* Mesh::bind: returned Bind; history of the positions the search found
    builder, ops,                              \* MeshBuilder: its fields; history of the calls made on it
    flog, nextHandle,                          \* the factory: every call it has seen; next fresh handle
    partial, bi, mesh, berr, bpc, builds,      \* MeshBuilder::build: buffers collected, layer index, Ok(mesh), Err(e), control, attempts
    dbind, dvertex, encoder, dpc               \* Bind::draw: self, the binding set, the encoder's record, control

compatVars == <<left, right, compat, cpc>>
findVars   == <<window, wanted, found, fpc>>
bindVars   == <<vbufs, ibuf, formats, debug, vertex, next, vertex_count, pos, pc, result, matched>>
builderVars == <<builder, ops>>
buildVars  == <<flog, nextHandle, partial, bi, mesh, berr, bpc, builds>>
drawVars   == <<dbind, dvertex, encoder, dpc>>
lifeVars   == <<builderVars, buildVars, drawVars>>
vars       == <<compatVars, findVars, bindVars, lifeVars>>

---------------------------------------------------------------------------
(* Bounds of the model.                                                    *)

MaxAttrs == 2       \* attributes per vertex format in SpecCompat
MaxBufs == 3        \* vertex buffers per mesh (and per search window)
MaxFormats == 3     \* requested formats per bind call
MaxOps == 3         \* adder and setter calls on one MeshBuilder
MaxLayers == 2      \* vertex layers staged in a builder that is built
MaxBuilds == 2      \* calls of build on one builder

---------------------------------------------------------------------------
(* Option<T>: None is the empty sequence, Some(x) the one-element one.     *)

None == <<>>
Some(x) == <<x>>

(* The Rust slice s[k..].                                                  *)
SliceFrom(s, k) == SubSeq(s, k + 1, Len(s))

SeqsUpTo(S, n) == UNION {[1..k -> S] : k \in 0..n}

---------------------------------------------------------------------------
(* Attribute and VertexFormat (used by mesh.rs through `*l == *r`,         *)
(* `a.offset`, `format.attributes`, `format.stride`).                      *)

Attr(n, f, o) == [name |-> n, format |-> f, offset |-> o]

\* Five attributes: any two of the first four differ in exactly one field
\* of some other, so an inexact match is always at hand.
Attributes ==
    { Attr("position", "Rgb32Float", 0),
      Attr("normal",   "Rgb32Float", 0),
      Attr("position", "Rg32Float",  0),
      Attr("position", "Rgb32Float", 12),
      Attr("normal",   "Rgb32Float", 12) }

Strides == {12, 24}

VertexFormat(attrs, s) == [attributes |-> attrs, stride |-> s]

\* Every format of at most MaxAttrs attributes, sorted or not.
AllFormats ==
    { VertexFormat(a, s) : a \in SeqsUpTo(Attributes, MaxAttrs), s \in Strides }

---------------------------------------------------------------------------
(* is_compatible                                                           *)

\* Iterator::position(|l| *l == *r) over the slice s: the 0-based index of
\* the first element equal to r, scanning from the front.
RECURSIVE PositionFrom(_, _, _)
PositionFrom(s, r, i) ==
    IF i >= Len(s) THEN None
    ELSE IF s[i + 1] = r THEN Some(i)
    ELSE PositionFrom(s, r, i + 1)

position(s, r) == PositionFrom(s, r, 0)

\* right.attributes.iter().all(|r| ...) with the captured cursor `skip`:
\* k is the 0-based index of the attribute of `right` under test.
RECURSIVE AllAttributes(_, _, _, _)
AllAttributes(la, ra, k, skip) ==
    IF k >= Len(ra) THEN TRUE
    ELSE LET p == position(SliceFrom(la, skip), ra[k + 1])
         IN  IF p = None THEN FALSE
             ELSE AllAttributes(la, ra, k + 1, skip + p[1])

\* Variants of is_compatible with one slip each: the stride test left out,
\* the two arguments taken in the wrong order, the stride test inverted.
is_compatible_no_stride(l, r) ==
    AllAttributes(l.attributes, r.attributes, 0, 0)

is_compatible_swapped(l, r) ==
    IF l.stride # r.stride THEN FALSE
    ELSE AllAttributes(r.attributes, l.attributes, 0, 0)

is_compatible_stride_eq(l, r) ==
    IF l.stride = r.stride THEN FALSE
    ELSE AllAttributes(l.attributes, r.attributes, 0, 0)

is_compatible(l, r) ==
    IF l.stride # r.stride THEN FALSE
    ELSE AllAttributes(l.attributes, r.attributes, 0, 0)

---------------------------------------------------------------------------
(* VertexBuffer, IndexBuffer and the meshes the search and bind run on.    *)

\* The formats meshes are built from and shaders ask for.  Each keeps the
\* VertexFormat invariant (attributes sorted by offset, offsets unique).
\* PosNorm contains Pos at the same stride, so a PosNorm buffer serves a
\* request for Pos (and not the reverse); PosTight has the attribute of Pos
\* at another stride, and neither serves the other.
PosTight == VertexFormat(<<Attr("position", "Rgb32Float", 0)>>, 12)
Pos      == VertexFormat(<<Attr("position", "Rgb32Float", 0)>>, 24)
PosNorm  == VertexFormat(<<Attr("position", "Rgb32Float", 0),
                           Attr("normal", "Rgb32Float", 12)>>, 24)

MeshFormats == {PosTight, Pos, PosNorm}

\* vertex counts a buffer may hold
Lens == {1, 2}

\* struct VertexBuffer { buffer, format, len }
VertexBuffer(b, f, n) == [buffer |-> b, format |-> f, len |-> n]

\* struct IndexBuffer { buffer, index_type, len }
IndexBuffer(b, t, n) == [buffer |-> b, index_type |-> t, len |-> n]

\* Buffer handles: the vertex buffer at 0-based position i of a mesh owns
\* handle i + 1, the index buffer owns handle 0; all are distinct.
IndexHandle == 0

VertexBufferLists ==
    UNION { { [i \in 1..k |-> VertexBuffer(i, fs[i], ns[i])] :
                fs \in [1..k -> MeshFormats], ns \in [1..k -> Lens] } :
            k \in 0..MaxBufs }

IndexBuffers ==
    { None,
      Some(IndexBuffer(IndexHandle, "U16", 3)),
      Some(IndexBuffer(IndexHandle, "U32", 6)) }

---------------------------------------------------------------------------
(* find_compatible_buffer                                                  *)

\* for (i, vbuf) in vbufs.iter().enumerate(): Some(i) at the first buffer
\* whose format is_compatible with `format`, None when the loop runs out.
RECURSIVE FindFrom(_, _, _)
FindFrom(bufs, format, i) ==
    IF i >= Len(bufs) THEN None
    ELSE IF is_compatible(bufs[i + 1].format, format) THEN Some(i)
    ELSE FindFrom(bufs, format, i + 1)

\* The same loop run from the back of the slice: it answers with the last
\* compatible buffer instead of the first.
RECURSIVE FindBack(_, _, _)
FindBack(bufs, format, i) ==
    IF i < 0 THEN None
    ELSE IF is_compatible(bufs[i + 1].format, format) THEN Some(i)
    ELSE FindBack(bufs, format, i - 1)

find_compatible_buffer_last(bufs, format) == FindBack(bufs, format, Len(bufs) - 1)

find_compatible_buffer(bufs, format) == FindFrom(bufs, format, 0)

---------------------------------------------------------------------------
(* SpecCompat: is_compatible applied to every pair of formats.             *)

InitCompatIdle ==
    /\ left = VertexFormat(<<>>, 12) /\ right = VertexFormat(<<>>, 12)
    /\ compat = None /\ cpc = "idle"

InitFindIdle ==
    /\ window = <<>> /\ wanted = VertexFormat(<<>>, 12)
    /\ found = None /\ fpc = "idle"

NoBind == [kind |-> "None", index |-> None, count |-> 0]

InitBindIdle ==
    /\ vbufs = <<>> /\ ibuf = None /\ formats = <<>> /\ debug = FALSE
    /\ vertex = <<>> /\ next = 0 /\ vertex_count = None /\ pos = 0
    /\ pc = "idle" /\ result = NoBind /\ matched = <<>>

\* MeshBuilder::new()
NewBuilder == [vertices |-> <<>>, indices |-> None, prim |-> "TriangleList"]

InitBuilderIdle == builder = NewBuilder /\ ops = <<>>

InitBuildIdle ==
    /\ flog = <<>> /\ nextHandle = 1 /\ partial = <<>> /\ bi = 0
    /\ mesh = None /\ berr = None /\ bpc = "idle" /\ builds = 0

InitDrawIdle ==
    /\ dbind = NoBind /\ dvertex = <<>> /\ encoder = <<>> /\ dpc = "idle"

InitLifeIdle == InitBuilderIdle /\ InitBuildIdle /\ InitDrawIdle

InitCompat ==
    /\ left \in AllFormats /\ right \in AllFormats
    /\ compat = None /\ cpc = "call"
    /\ InitFindIdle /\ InitBindIdle /\ InitLifeIdle

CallIsCompatible ==
    /\ cpc = "call"
    /\ compat' = Some(is_compatible(left, right))
    /\ cpc' = "done"
    /\ UNCHANGED <<left, right, findVars, bindVars, lifeVars>>

NextCompat == CallIsCompatible

SpecCompat == InitCompat /\ [][NextCompat]_vars

---------------------------------------------------------------------------
(* SpecFind: find_compatible_buffer applied to every window of a mesh's    *)
(* buffers (the slice vbufs[k..] of every mesh, the empty one included).   *)

InitFind ==
    /\ \E bufs \in VertexBufferLists : \E k \in 0..Len(bufs) :
           window = SliceFrom(bufs, k)
    /\ wanted \in MeshFormats
    /\ found = None /\ fpc = "call"
    /\ InitCompatIdle /\ InitBindIdle /\ InitLifeIdle

CallFindCompatibleBuffer ==
    /\ fpc = "call"
    /\ found' = Some(find_compatible_buffer(window, wanted))
    /\ fpc' = "done"
    /\ UNCHANGED <<window, wanted, compatVars, bindVars, lifeVars>>

NextFind == CallFindCompatibleBuffer

SpecFind == InitFind /\ [][NextFind]_vars

---------------------------------------------------------------------------
(* The ordering of vertex formats and the sortedness checks of the debug   *)
(* assertions.  VertexFormat's Ord and utils::is_slice_sorted are not in   *)
(* mesh.rs: the order is the derived, field-by-field one (attributes       *)
(* compared lexicographically, then the stride), sortedness is ascending   *)
(* with equal neighbours allowed.                                          *)

NameRank(n) == IF n = "position" THEN 0 ELSE 1
ElemRank(f) == IF f = "Rg32Float" THEN 0 ELSE 1

\* -1, 0, 1 as a is below, equal to, above b
AttrCmp(a, b) ==
    IF NameRank(a.name) # NameRank(b.name)
    THEN (IF NameRank(a.name) < NameRank(b.name) THEN -1 ELSE 1)
    ELSE IF ElemRank(a.format) # ElemRank(b.format)
    THEN (IF ElemRank(a.format) < ElemRank(b.format) THEN -1 ELSE 1)
    ELSE IF a.offset # b.offset
    THEN (IF a.offset < b.offset THEN -1 ELSE 1)
    ELSE 0

RECURSIVE AttrsCmp(_, _, _)
AttrsCmp(x, y, i) ==
    IF i > Len(x) /\ i > Len(y) THEN 0
    ELSE IF i > Len(x) THEN -1
    ELSE IF i > Len(y) THEN 1
    ELSE IF AttrCmp(x[i], y[i]) # 0 THEN AttrCmp(x[i], y[i])
    ELSE AttrsCmp(x, y, i + 1)

FormatLeq(f, g) ==
    LET c == AttrsCmp(f.attributes, g.attributes, 1)
    IN  c < 0 \/ (c = 0 /\ f.stride <= g.stride)

\* is_slice_sorted(formats)
is_slice_sorted(fs) ==
    \A i \in 1..(Len(fs) - 1) : FormatLeq(fs[i], fs[i + 1])

\* is_slice_sorted_by_key(&self.vbufs, |vbuf| &vbuf.format)
is_slice_sorted_by_format(bufs) ==
    \A i \in 1..(Len(bufs) - 1) : FormatLeq(bufs[i].format, bufs[i + 1].format)

---------------------------------------------------------------------------
(* Spec: Mesh::bind.  A call starts at pc = "call", runs the debug         *)
(* assertions (BindEnter), then one iteration of the `for format in        *)
(* formats` loop per step (BindIter), and returns (BindReturn).  It ends   *)
(* at "ok" (Ok(bind)), "incompatible" (Err(Incompatible)), "panic_assert"  *)
(* (an assertion failed) or "panic_index" (a slice or index out of range). *)
(* `debug` tells whether debug assertions are compiled in.  A mesh need    *)
(* not be sorted: MeshBuilder::build keeps the layers in the order they    *)
(* were added.  `matched` records, per resolved format, the 0-based        *)
(* position in vbufs of the buffer the search found (window start plus the *)
(* window-relative answer).                                                *)

Indexed(view, n) == [kind |-> "Indexed", index |-> Some(view), count |-> n]
Unindexed(n) == [kind |-> "Unindexed", index |-> None, count |-> n]
IndexBufferView(b, o, t) == [buffer |-> b, offset |-> o, index_type |-> t]

Init ==
    /\ vbufs \in VertexBufferLists
    /\ ibuf \in IndexBuffers
    /\ formats \in SeqsUpTo(MeshFormats, MaxFormats)
    /\ debug \in BOOLEAN
    /\ vertex = <<>> /\ next = 0 /\ vertex_count = None /\ pos = 0
    /\ pc = "call" /\ result = NoBind /\ matched = <<>>
    /\ InitCompatIdle /\ InitFindIdle /\ InitLifeIdle

\* lines 257-264: the three debug assertions, then the locals
BindEnter ==
    /\ pc = "call"
    /\ pc' = IF debug /\ ~( /\ is_slice_sorted(formats)
                            /\ is_slice_sorted_by_format(vbufs)
                            /\ vertex = <<>> )
             THEN "panic_assert" ELSE "loop"
    /\ next' = 0
    /\ vertex_count' = None
    /\ UNCHANGED <<vbufs, ibuf, formats, debug, vertex, pos, result, matched>>
    /\ UNCHANGED <<compatVars, findVars, lifeVars>>

\* The entry pushed for the buffer at 0-based position `index` of vbufs.
BindingEntry(bufs, index) == <<bufs[index + 1].buffer, 0>>

\* line 269: next = index + 1, `index` being the answer of the search over
\* the window vbufs[nxt..]
NextAfter(nxt, index) == index + 1

\* The same read taken after `next` was advanced: self.vbufs[index + 1].
BufferRead_next(nxt, index) == index + 1

\* lines 268-271: the position of the buffer whose handle and len the loop
\* body reads, self.vbufs[index]
BufferRead(nxt, index) == index

\* A test that lets every count pass, as if the assertion were compiled out.
CountAgrees_unchecked(vc, n) == TRUE

\* line 270: vertex_count.is_none() || vertex_count == Some(len)
CountAgrees(vc, n) == vc = None \/ vc = Some(n)

\* The binding set on leaving the loop body with the search answer r and a
\* variant that hands back an empty set with Err(Incompatible).
VertexAfter_discard(v, bufs, nxt, r) ==
    IF r = None THEN <<>>
    ELSE Append(v, BindingEntry(bufs, BufferRead(nxt, r[1])))

\* lines 266-275: the binding set after one iteration whose search answered
\* r: one entry more when a buffer was found, untouched when not
VertexAfter(v, bufs, nxt, r) ==
    IF r = None THEN v
    ELSE Append(v, BindingEntry(bufs, BufferRead(nxt, r[1])))

\* lines 265-276: one iteration of the loop, for formats[pos]
BindIter ==
    /\ pc = "loop" /\ pos < Len(formats)
    /\ IF next > Len(vbufs)
       THEN \* &self.vbufs[next..] out of range
            /\ pc' = "panic_index"
            /\ UNCHANGED <<vertex, next, vertex_count, pos, matched>>
       ELSE LET r == find_compatible_buffer(SliceFrom(vbufs, next), formats[pos + 1])
            IN  IF r = None
                THEN \* return Err(Incompatible)
                     /\ pc' = "incompatible"
                     /\ vertex' = VertexAfter(vertex, vbufs, next, r)
                     /\ UNCHANGED <<next, vertex_count, pos, matched>>
                ELSE LET index == r[1]
                         at == BufferRead(next, index)
                     IN  IF at >= Len(vbufs)
                         THEN \* self.vbufs[index] out of range
                              /\ pc' = "panic_index"
                              /\ UNCHANGED <<vertex, next, vertex_count, pos, matched>>
                         ELSE /\ vertex' = VertexAfter(vertex, vbufs, next, r)
                              /\ next' = NextAfter(next, index)
                              /\ matched' = Append(matched, next + index)
                              /\ IF CountAgrees(vertex_count, vbufs[at + 1].len)
                                 THEN /\ vertex_count' = Some(vbufs[at + 1].len)
                                      /\ pos' = pos + 1
                                      /\ pc' = "loop"
                                 ELSE \* assert! failed
                                      /\ pc' = "panic_assert"
                                      /\ UNCHANGED <<vertex_count, pos>>
    /\ UNCHANGED <<vbufs, ibuf, formats, debug, result>>
    /\ UNCHANGED <<compatVars, findVars, lifeVars>>

\* vertex_count.unwrap_or(0)
UnwrapOr(o, d) == IF o = None THEN d ELSE o[1]

\* lines 277-289: every format resolved
BindResult(ib, vc) ==
    IF ib # None
    THEN Indexed(IndexBufferView(ib[1].buffer, 0, ib[1].index_type), ib[1].len)
    ELSE Unindexed(UnwrapOr(vc, 0))

BindReturn ==
    /\ pc = "loop" /\ pos = Len(formats)
    /\ result' = BindResult(ibuf, vertex_count)
    /\ pc' = "ok"
    /\ UNCHANGED <<vbufs, ibuf, formats, debug, vertex, next, vertex_count, pos, matched>>
    /\ UNCHANGED <<compatVars, findVars, lifeVars>>

Next == BindEnter \/ BindIter \/ BindReturn

Spec == Init /\ [][Next]_vars

---------------------------------------------------------------------------
(* MeshBuilder: the adders and setters.                                    *)

\* usize is wider than u32: a length is kept as two 32-bit words, standing
\* for hi * 2^32 + lo.
Usize(hi, lo) == [hi |-> hi, lo |-> lo]

\* Cow<[u8]>: staged raw bytes, kept as the identity of the data they were
\* taken from and their length in bytes (a usize).
Bytes(d, n) == [data |-> d, len |-> n]

\* utils::cast_cow: `count` elements of `size` bytes each, seen as bytes
cast_cow(d, count, size) == Bytes(d, Usize(0, count * size))

Primitives == {"PointList", "LineList", "TriangleList"}

\* enum Indices: None, U16(data), U32(data)
IndicesNone == [kind |-> "None", data |-> 0, count |-> 0]
IndicesOf(k, d, n) == [kind |-> k, data |-> d, count |-> n]

\* A typed vertex slice [V]: V::VERTEX_FORMAT, size_of::<V>() (the stride of
\* the format), the data and the number of vertices.
VerticesOf(f, d, n) == [format |-> f, size |-> f.stride, data |-> d, count |-> n]

\* set_indices that leaves the staged layer in place on Indices::None
set_indices_keep(b, i) ==
    [b EXCEPT !.indices =
        IF i.kind = "None" THEN b.indices
        ELSE IF i.kind = "U16" THEN Some(<<cast_cow(i.data, i.count, 2), "U16">>)
        ELSE Some(<<cast_cow(i.data, i.count, 4), "U32">>)]

\* lines 116-126
set_indices(b, i) ==
    [b EXCEPT !.indices =
        IF i.kind = "None" THEN None
        ELSE IF i.kind = "U16" THEN Some(<<cast_cow(i.data, i.count, 2), "U16">>)
        ELSE Some(<<cast_cow(i.data, i.count, 4), "U32">>)]

\* lines 107-113: self.set_indices(indices); self
with_indices(b, i) == set_indices(b, i)

\* lines 139-147
add_vertices(b, v) ==
    [b EXCEPT !.vertices =
        Append(b.vertices, <<cast_cow(v.data, v.count, v.size), v.format>>)]

\* lines 129-136: self.add_vertices(vertices); self
with_vertices(b, v) == add_vertices(b, v)

\* lines 152-155
with_prim_type(b, p) == [b EXCEPT !.prim = p]

\* lines 160-163
set_prim_type(b, p) == [b EXCEPT !.prim = p]

(* SpecBuilder: up to MaxOps calls on a new builder.  Each call brings its *)
(* own data, named by the number of the call.                              *)

Call(o, variant, a) == [op |-> o, variant |-> variant, arg |-> a]

IndicesArgs(d) == {IndicesNone, IndicesOf("U16", d, 3), IndicesOf("U32", d, 3)}
VerticesArgs(d) == {VerticesOf(f, d, n) : f \in MeshFormats, n \in Lens}

InitBuilder ==
    /\ builder = NewBuilder /\ ops = <<>>
    /\ InitCompatIdle /\ InitFindIdle /\ InitBindIdle
    /\ InitBuildIdle /\ InitDrawIdle

BuilderUnchanged == UNCHANGED <<compatVars, findVars, bindVars, buildVars, drawVars>>

SetIndices ==
    /\ Len(ops) < MaxOps
    /\ \E i \in IndicesArgs(Len(ops) + 1) :
          /\ builder' = set_indices(builder, i)
          /\ ops' = Append(ops, Call("indices", "set", i))
    /\ BuilderUnchanged

WithIndices ==
    /\ Len(ops) < MaxOps
    /\ \E i \in IndicesArgs(Len(ops) + 1) :
          /\ builder' = with_indices(builder, i)
          /\ ops' = Append(ops, Call("indices", "with", i))
    /\ BuilderUnchanged

AddVertices ==
    /\ Len(ops) < MaxOps
    /\ \E v \in VerticesArgs(Len(ops) + 1) :
          /\ builder' = add_vertices(builder, v)
          /\ ops' = Append(ops, Call("vertices", "add", v))
    /\ BuilderUnchanged

WithVertices ==
    /\ Len(ops) < MaxOps
    /\ \E v \in VerticesArgs(Len(ops) + 1) :
          /\ builder' = with_vertices(builder, v)
          /\ ops' = Append(ops, Call("vertices", "with", v))
    /\ BuilderUnchanged

SetPrimType ==
    /\ Len(ops) < MaxOps
    /\ \E p \in Primitives :
          /\ builder' = set_prim_type(builder, p)
          /\ ops' = Append(ops, Call("prim", "set", p))
    /\ BuilderUnchanged

WithPrimType ==
    /\ Len(ops) < MaxOps
    /\ \E p \in Primitives :
          /\ builder' = with_prim_type(builder, p)
          /\ ops' = Append(ops, Call("prim", "with", p))
    /\ BuilderUnchanged

NextBuilder ==
    \/ SetIndices \/ WithIndices
    \/ AddVertices \/ WithVertices
    \/ SetPrimType \/ WithPrimType

SpecBuilder == InitBuilder /\ [][NextBuilder]_vars

---------------------------------------------------------------------------
(* MeshBuilder::build and Mesh::dispose                                    *)

\* VertexCount and IndexCount are u32: `as VertexCount` keeps the low 32 bits
AsU32(n) == n.lo

\* line 174
VertexLen(bytes, format) == AsU32(bytes.len) \div format.stride

\* lines 198-201
IndexStride(index_type) == IF index_type = "U16" THEN 2 ELSE 4

\* line 202
IndexLen(bytes, index_type) == AsU32(bytes.len) \div IndexStride(index_type)

\* struct Mesh { vbufs, ibuf, prim }
MeshOf(v, i, p) == [vbufs |-> v, ibuf |-> i, prim |-> p]

\* Result of a factory call
Ok(x) == [ok |-> TRUE, val |-> x]
Err(e) == [ok |-> FALSE, val |-> e]

\* The calls build and dispose make on the factory, as the factory sees
\* them; `build` is the number of the build call they belong to.
create_buffer(a, size, usage, r) ==
    [build |-> a, call |-> "create_buffer", size |-> size,
     properties |-> "DEVICE_LOCAL", usage |-> usage, result |-> r]
upload_buffer(a, access, h, offset, bytes, r) ==
    [build |-> a, call |-> "upload_buffer", access |-> access, buffer |-> h,
     offset |-> offset, data |-> bytes, result |-> r]
destroy_buffer(a, h) == [build |-> a, call |-> "destroy_buffer", buffer |-> h]

VertexUsage == {"VERTEX", "TRANSFER_DST"}
IndexUsage == {"INDEX", "TRANSFER_DST"}

Outcomes == {"ok", "create_failed", "upload_failed"}

\* lines 177-187 and 205-215: create_buffer(..)?, then upload_buffer(..)?.
\* The factory decides the outcome; an error is named by the position of
\* the failing call among all calls made.
LayerCalls(a, bytes, usage, access, h, outcome, e) ==
    IF outcome = "create_failed"
    THEN << create_buffer(a, bytes.len, usage, Err(e)) >>
    ELSE IF outcome = "upload_failed"
    THEN << create_buffer(a, bytes.len, usage, Ok(h)),
            upload_buffer(a, access, h, 0, bytes, Err(e + 1)) >>
    ELSE << create_buffer(a, bytes.len, usage, Ok(h)),
            upload_buffer(a, access, h, 0, bytes, Ok(<<>>)) >>

\* a build that reports what the first call for the layer returned
Failure_first(calls) == calls[1].result.val

\* the `?` of lines 181, 187, 209, 215: the error of the failing call
Failure(calls) == calls[Len(calls)].result.val

\* collect that yields the buffers in reverse
Collect_reversed(list, vb) == <<vb>> \o list

\* line 194: collect keeps the order of the iteration
Collect(list, vb) == Append(list, vb)

\* build that takes the builder by value and leaves nothing behind
AfterBuild_moved(b) == NewBuilder

\* line 166: build(&self, ..) borrows the builder
AfterBuild(b) == b

\* dispose that forgets the index buffer
DisposeCalls_vbufs(a, m) ==
    [k \in 1..Len(m.vbufs) |-> destroy_buffer(a, m.vbufs[k].buffer)]

\* lines 293-301
DisposeCalls(a, m) ==
    (IF m.ibuf # None THEN << destroy_buffer(a, m.ibuf[1].buffer) >> ELSE <<>>)
    \o [k \in 1..Len(m.vbufs) |-> destroy_buffer(a, m.vbufs[k].buffer)]

(* SpecBuild: a builder holding staged layers is built, up to MaxBuilds     *)
(* times, and a built mesh may be disposed.  The staged bytes are what the *)
(* builder holds, whatever put them there: a vertex type whose format has  *)
(* another stride than its size, or a deserialized builder, stages a layer *)
(* that is not a whole number of elements.                                 *)

\* staged vertex layers: byte length and format; the last is 2^32 + 24 bytes
StagedLayers ==
    { <<Usize(0, 480), PosTight>>, <<Usize(0, 30), Pos>>,
      <<Usize(0, 48), PosNorm>>, <<Usize(1, 24), PosTight>> }

\* staged index layers: byte length and index type
StagedIndices ==
    { <<Usize(0, 24), "U32">>, <<Usize(0, 30), "U32">>, <<Usize(0, 30), "U16">> }

StagedPrims == {"TriangleList", "LineList"}

\* layer k holds the data named k; the index layer holds the data named 0
StagedBuilders ==
    { [vertices |-> [k \in 1..Len(ls) |-> <<Bytes(k, ls[k][1]), ls[k][2]>>],
       indices |-> i, prim |-> p] :
        ls \in SeqsUpTo(StagedLayers, MaxLayers),
        i \in {None} \cup {Some(<<Bytes(0, x[1]), x[2]>>) : x \in StagedIndices},
        p \in StagedPrims }

InitBuild ==
    /\ builder \in StagedBuilders /\ ops = <<>>
    /\ flog = <<>> /\ nextHandle = 1 /\ partial = <<>> /\ bi = 0
    /\ mesh = None /\ berr = None /\ bpc = "ready" /\ builds = 0
    /\ InitCompatIdle /\ InitFindIdle /\ InitBindIdle /\ InitDrawIdle

BuildUnchanged == UNCHANGED <<compatVars, findVars, bindVars, drawVars, ops>>

\* line 166: the call; nothing of an earlier call is carried over
BuildStart ==
    /\ bpc \in {"ready", "built", "failed", "disposed"}
    /\ builds < MaxBuilds
    /\ builds' = builds + 1
    /\ partial' = <<>> /\ bi' = 0 /\ mesh' = None /\ berr' = None
    /\ bpc' = "vertices"
    /\ UNCHANGED <<builder, flog, nextHandle>>
    /\ BuildUnchanged

\* lines 171-194: one turn of the map closure, and collect's short circuit
BuildVertexLayer ==
    /\ bpc = "vertices" /\ bi < Len(builder.vertices)
    /\ \E outcome \in Outcomes :
         LET vertices == builder.vertices[bi + 1][1]
             format == builder.vertices[bi + 1][2]
             len == VertexLen(vertices, format)
             calls == LayerCalls(builds, vertices, VertexUsage,
                                 "VERTEX_BUFFER_READ", nextHandle, outcome,
                                 Len(flog) + 1)
         IN  /\ flog' = flog \o calls
             /\ nextHandle' = IF outcome = "create_failed" THEN nextHandle
                               ELSE nextHandle + 1
             /\ IF outcome = "ok"
                THEN /\ partial' = Collect(partial, VertexBuffer(nextHandle, format, len))
                     /\ bi' = bi + 1
                     /\ UNCHANGED <<bpc, berr, builder>>
                ELSE /\ berr' = Some(Failure(calls))
                     /\ bpc' = "failed"
                     /\ builder' = AfterBuild(builder)
                     /\ UNCHANGED <<partial, bi>>
    /\ UNCHANGED <<mesh, builds>>
    /\ BuildUnchanged

\* lines 195-224: the index layer, if any, and the Mesh
BuildIndexLayer ==
    /\ bpc = "vertices" /\ bi = Len(builder.vertices)
    /\ IF builder.indices = None
       THEN /\ mesh' = Some(MeshOf(partial, None, builder.prim))
            /\ bpc' = "built"
            /\ UNCHANGED <<flog, nextHandle, berr>>
       ELSE \E outcome \in Outcomes :
            LET indices == builder.indices[1][1]
                index_type == builder.indices[1][2]
                len == IndexLen(indices, index_type)
                calls == LayerCalls(builds, indices, IndexUsage,
                                    "INDEX_BUFFER_READ", nextHandle, outcome,
                                    Len(flog) + 1)
            IN  /\ flog' = flog \o calls
                /\ nextHandle' = IF outcome = "create_failed" THEN nextHandle
                                  ELSE nextHandle + 1
                /\ IF outcome = "ok"
                   THEN /\ mesh' = Some(MeshOf(partial,
                                        Some(IndexBuffer(nextHandle, index_type, len)),
                                        builder.prim))
                        /\ bpc' = "built"
                        /\ UNCHANGED berr
                   ELSE /\ berr' = Some(Failure(calls))
                        /\ bpc' = "failed"
                        /\ UNCHANGED mesh
    /\ builder' = AfterBuild(builder)
    /\ UNCHANGED <<partial, bi, builds>>
    /\ BuildUnchanged

\* lines 293-301
Dispose ==
    /\ bpc = "built"
    /\ flog' = flog \o DisposeCalls(builds, mesh[1])
    /\ bpc' = "disposed"
    /\ UNCHANGED <<builder, nextHandle, partial, bi, mesh, berr, builds>>
    /\ BuildUnchanged

NextBuild == BuildStart \/ BuildVertexLayer \/ BuildIndexLayer \/ Dispose

SpecBuild == InitBuild /\ [][NextBuild]_vars

---------------------------------------------------------------------------
(* Bind::draw                                                              *)

\* a..b of Rust: from a up to, not including, b
Range(a, b) == [start |-> a, end |-> b]

\* the commands of RenderSubpassCommon that draw records
bind_vertex_buffers(v) == [cmd |-> "bind_vertex_buffers", set |-> v]
bind_index_buffer(view) == [cmd |-> "bind_index_buffer", view |-> view]
draw_indexed(indices, base, instances) ==
    [cmd |-> "draw_indexed", indices |-> indices, base_vertex |-> base,
     instances |-> instances]
draw_plain(vertices, instances) ==
    [cmd |-> "draw", vertices |-> vertices, instances |-> instances]

\* draw that records the indexed draw without binding the index buffer
draw_index_unbound(b, v, enc) ==
    IF b.kind = "Indexed"
    THEN enc \o << bind_vertex_buffers(v),
                   draw_indexed(Range(0, b.count), 0, Range(0, 1)) >>
    ELSE enc \o << bind_vertex_buffers(v),
                   draw_plain(Range(0, b.count), Range(0, 1)) >>

\* lines 333-345
draw(b, v, enc) ==
    IF b.kind = "Indexed"
    THEN enc \o << bind_vertex_buffers(v),
                   bind_index_buffer(b.index[1]),
                   draw_indexed(Range(0, b.count), 0, Range(0, 1)) >>
    ELSE enc \o << bind_vertex_buffers(v),
                   draw_plain(Range(0, b.count), Range(0, 1)) >>

\* the values Mesh::bind can return, and the binding sets it can fill
Binds == { BindResult(ib, vc) :
             ib \in IndexBuffers, vc \in {None} \cup {Some(n) : n \in Lens} }
BindingSets == SeqsUpTo({<<h, 0>> : h \in 1..MaxBufs}, MaxFormats)

InitDraw ==
    /\ dbind \in Binds
    /\ dvertex \in BindingSets
    /\ encoder = <<>>
    /\ dpc = "call"
    /\ InitCompatIdle /\ InitFindIdle /\ InitBindIdle
    /\ InitBuilderIdle /\ InitBuildIdle

Draw ==
    /\ dpc = "call"
    /\ encoder' = draw(dbind, dvertex, encoder)
    /\ dpc' = "done"
    /\ UNCHANGED <<dbind, dvertex>>
    /\ UNCHANGED <<compatVars, findVars, bindVars, builderVars, buildVars>>

NextDraw == Draw

SpecDraw == InitDraw /\ [][NextDraw]_vars

---------------------------------------------------------------------------
(* Properties of is_compatible (SpecCompat).                               *)

\* every attribute of `want` occurs in `have`, compared field by field
ContainsAll(have, want) ==
    \A k \in 1..Len(want) : \E j \in 1..Len(have) : have[j] = want[k]

SortedByOffset(attrs) ==
    \A i, j \in 1..Len(attrs) : i < j => attrs[i].offset <= attrs[j].offset

NoDuplicateOffsets(attrs) ==
    \A i, j \in 1..Len(attrs) : i # j => attrs[i].offset # attrs[j].offset

\* C7: is_compatible(have, want) is false whenever the strides differ, and
\* whenever it is true the strides are equal and every attribute of want
\* occurs in have with the same name, element format and byte offset.
C7_CompatibleSound ==
    cpc = "done" =>
        /\ left.stride # right.stride => compat = Some(FALSE)
        /\ compat = Some(TRUE) =>
              /\ left.stride = right.stride
              /\ ContainsAll(left.attributes, right.attributes)

\* C7 witness: a true answer for a non-empty want against a longer have.
C7_Witness ==
    /\ cpc = "done" /\ compat = Some(TRUE)
    /\ Len(right.attributes) >= 1
    /\ Len(left.attributes) > Len(right.attributes)

\* C8 as stated: want's attributes a subset of have's, both lists sorted
\* ascending by byte offset, equal strides: is_compatible answers true.
C8_Original ==
    ( /\ cpc = "done"
      /\ left.stride = right.stride
      /\ ContainsAll(left.attributes, right.attributes)
      /\ SortedByOffset(left.attributes)
      /\ SortedByOffset(right.attributes) )
    => compat = Some(TRUE)

\* C8 amended: as stated, provided at least one of the two lists holds no
\* two attributes at the same byte offset.
C8_SubsetCompatible ==
    ( /\ cpc = "done"
      /\ left.stride = right.stride
      /\ ContainsAll(left.attributes, right.attributes)
      /\ SortedByOffset(left.attributes)
      /\ SortedByOffset(right.attributes)
      /\ \/ NoDuplicateOffsets(left.attributes)
         \/ NoDuplicateOffsets(right.attributes) )
    => compat = Some(TRUE)

\* C8 witness: a want of two attributes satisfied by a different have, under
\* the amended precondition.
C8_Witness ==
    /\ cpc = "done" /\ compat = Some(TRUE)
    /\ left.stride = right.stride
    /\ Len(right.attributes) = 2
    /\ left.attributes # right.attributes
    /\ ContainsAll(left.attributes, right.attributes)
    /\ SortedByOffset(left.attributes)
    /\ SortedByOffset(right.attributes)
    /\ NoDuplicateOffsets(left.attributes)

\* C9: a format whose attributes are sorted by offset with no duplicate
\* offsets is compatible with itself.
C9_Reflexive ==
    ( /\ cpc = "done"
      /\ left = right
      /\ SortedByOffset(left.attributes)
      /\ NoDuplicateOffsets(left.attributes) )
    => compat = Some(TRUE)

\* C9 witness: is_compatible(A, A) has been applied to a two-attribute A.
C9_Witness ==
    /\ cpc = "done" /\ left = right
    /\ Len(left.attributes) = 2
    /\ SortedByOffset(left.attributes)
    /\ NoDuplicateOffsets(left.attributes)


---------------------------------------------------------------------------
(* Properties of find_compatible_buffer (SpecFind).                        *)

\* C10: find_compatible_buffer answers Some(i) only for a window-relative
\* index i of a compatible buffer with no compatible buffer before it, and
\* None exactly when no buffer of the window is compatible (an empty window
\* included).
C10_FindFirst ==
    fpc = "done" =>
        LET r == found[1]
            Compatible(i) == is_compatible(window[i + 1].format, wanted)
        IN  /\ r # None =>
                  /\ r[1] \in 0..(Len(window) - 1)
                  /\ Compatible(r[1])
                  /\ \A j \in 0..(r[1] - 1) : ~Compatible(j)
            /\ r = None <=> (\A j \in 0..(Len(window) - 1) : ~Compatible(j))

\* C10 witness: the search skipped an incompatible buffer, answered with a
\* compatible one, and a later compatible buffer was left alone.
C10_Witness ==
    /\ fpc = "done" /\ found = Some(Some(1))
    /\ Len(window) = 3
    /\ is_compatible(window[3].format, wanted)


---------------------------------------------------------------------------
(* Properties of Mesh::bind (Spec).                                        *)

\* the stated preconditions of bind: formats and buffers sorted by format
\* (the binding set starts empty in every call of Spec)
SortedCall == is_slice_sorted(formats) /\ is_slice_sorted_by_format(vbufs)

\* the buffer the search found for the i-th resolved format (i from 1)
MatchedBuffer(i) == vbufs[matched[i] + 1]

\* `have` serves `want`, as section 4.1 of the design states it
Serves(have, want) ==
    /\ have.stride = want.stride
    /\ ContainsAll(have.attributes, want.attributes)

\* no buffer of the mesh serves the k-th requested format (k from 1)
Missing(k) == \A b \in 1..Len(vbufs) : ~Serves(vbufs[b].format, formats[k])

Handles == {vbufs[b].buffer : b \in 1..Len(vbufs)}

\* C1: bind, called with sorted formats on a sorted mesh and an empty
\* binding set, returns Ok only with one entry per requested format, each at
\* offset 0, slot i holding the handle of the buffer matched for format i,
\* a buffer compatible with that format.
C1_SlotsHoldMatched ==
    (pc = "ok" /\ SortedCall) =>
        /\ Len(vertex) = Len(formats)
        /\ Len(matched) = Len(formats)
        /\ \A i \in 1..Len(formats) :
              /\ vertex[i] = <<MatchedBuffer(i).buffer, 0>>
              /\ is_compatible(MatchedBuffer(i).format, formats[i])

\* C2: within one bind call the search window only moves forward: the
\* matched buffers lie at strictly increasing positions of vbufs, and no
\* buffer is bound for two requested formats.
C2_WindowForward ==
    (pc = "ok" /\ SortedCall) =>
        /\ \A i, j \in 1..Len(matched) : i < j => matched[i] < matched[j]
        /\ \A i, j \in 1..Len(vertex) : i # j => vertex[i][1] # vertex[j][1]

\* C3: when bind returns Ok, a mesh with an index buffer gives Indexed with
\* the view (index buffer, offset 0, its index type) and its index count;
\* a mesh without gives Unindexed with the vertex count of the buffers
\* matched for the requested formats, 0 when none was requested.
C3_BindResult ==
    (pc = "ok" /\ SortedCall) =>
        IF ibuf # None
        THEN result = Indexed(IndexBufferView(ibuf[1].buffer, 0, ibuf[1].index_type),
                              ibuf[1].len)
        ELSE /\ result.kind = "Unindexed"
             /\ result.index = None
             /\ formats = <<>> => result.count = 0
             /\ \A i \in 1..Len(matched) : result.count = MatchedBuffer(i).len

\* C4 as stated: if some requested format is served by no buffer of the
\* mesh, the call ends with Err(Incompatible).  It is stated here for the
\* calls on sorted inputs in which the buffers found for two earlier formats
\* differ in vertex count, where the assertion of line 270 is due.
C4_Original ==
    ( /\ \E k \in 1..Len(formats) : Missing(k)
      /\ SortedCall
      /\ \E i, j \in 1..Len(matched) : MatchedBuffer(i).len # MatchedBuffer(j).len
      /\ pc \in {"ok", "incompatible", "panic_assert", "panic_index"} )
    => pc = "incompatible"

\* C4 amended: if some requested format is served by no buffer of the mesh,
\* bind never returns Ok and the loop never gets past that format: the call
\* ends with Err(Incompatible) or with a failed assertion.
C4_NeverOk ==
    \A k \in 1..Len(formats) :
        Missing(k) =>
            /\ pc # "ok"
            /\ pos < k
            /\ pc \in {"call", "loop", "incompatible", "panic_assert"}

\* C4 witness: Err(Incompatible) from a mesh with an index buffer, after an
\* earlier format was resolved, for a format no buffer serves.
C4_Witness ==
    /\ pc = "incompatible" /\ pos >= 1 /\ ibuf # None
    /\ Missing(pos + 1)

\* C5: when bind returns Incompatible at the k-th format (0-based), the
\* first it cannot resolve, the binding set holds exactly the k entries
\* appended for the earlier formats and nothing for the failing one.
C5_PartialBinding ==
    pc = "incompatible" =>
        /\ pos < Len(formats)
        /\ \A b \in (next + 1)..Len(vbufs) :
              ~is_compatible(vbufs[b].format, formats[pos + 1])
        /\ Len(matched) = pos
        /\ Len(vertex) = pos
        /\ \A i \in 1..pos : vertex[i][1] \in Handles /\ vertex[i][2] = 0

\* C5 witness: Incompatible at the third format, two entries left behind.
C5_Witness ==
    /\ pc = "incompatible" /\ pos = 2 /\ Len(vertex) = 2

\* C6: once two requested formats of one call are matched against buffers
\* of different vertex counts, the call aborts on the assertion: it returns
\* neither Ok nor Incompatible.
C6_MismatchAborts ==
    ( /\ SortedCall
      /\ \E i, j \in 1..Len(matched) : MatchedBuffer(i).len # MatchedBuffer(j).len )
    => pc \notin {"ok", "incompatible"}


\* C19: bind never reads the buffer list out of range, for any mesh and any
\* requested formats, sorted or not: the window start `next` stays within
\* 0..len(vbufs), no slice or index panics, and every handle pushed was read
\* from a buffer of the mesh.
C19_InRange ==
    /\ pc # "panic_index"
    /\ next \in 0..Len(vbufs)
    /\ \A i \in 1..Len(matched) : matched[i] \in 0..(Len(vbufs) - 1)
    /\ \A i \in 1..Len(vertex) : vertex[i][1] \in Handles

\* C19 witness: on unsorted input, the loop is about to search the empty
\* window at the very end of a mesh of several buffers.
C19_Witness ==
    /\ pc = "loop" /\ pos >= 1 /\ pos < Len(formats)
    /\ Len(vbufs) >= 2 /\ next = Len(vbufs)
    /\ ~SortedCall

\* the buffer of the mesh that owns handle h
BufferOf(h) == vbufs[CHOOSE b \in 1..Len(vbufs) : vbufs[b].buffer = h]

\* C20: when bind returns Ok for a non-empty list of formats, the buffers
\* whose handles are in the binding set all have one vertex count, and an
\* Unindexed result carries that count.
C20_BoundCountsAgree ==
    (pc = "ok" /\ formats # <<>>) =>
        /\ Len(vertex) = Len(formats)
        /\ \A i \in 1..Len(vertex) :
              BufferOf(vertex[i][1]).len = BufferOf(vertex[1][1]).len
        /\ result.kind = "Unindexed" =>
              result.count = BufferOf(vertex[1][1]).len

\* C20 witness: Ok(Unindexed) with two different buffers bound, from a mesh
\* that also holds a buffer of another vertex count.
C20_Witness ==
    /\ pc = "ok" /\ result.kind = "Unindexed"
    /\ Len(vertex) = 2 /\ vertex[1][1] # vertex[2][1]
    /\ \E b \in 1..Len(vbufs) : vbufs[b].len # result.count


---------------------------------------------------------------------------
(* Properties of MeshBuilder (SpecBuilder).                                *)

IsVerticesCall(c) == c.op = "vertices"

\* the calls of one kind, with the variant forgotten
CallsOf(o) == {k \in 1..Len(ops) : ops[k].op = o}
LastCall(o) == ops[CHOOSE k \in CallsOf(o) : \A j \in CallsOf(o) : j <= k]

IndexWidth(k) == IF k = "U16" THEN 2 ELSE 4

\* C17: after any sequence of builder calls on a new MeshBuilder, the
\* staged vertex layers are the added ones in call order; the staged index
\* layer is that of the last set/with_indices call, absent if there was
\* none or it passed Indices::None; the topology is the last one set, or
\* triangle-list; a with_* call counts as its set_*/add_* counterpart.
C17_BuilderState ==
    LET added == SelectSeq(ops, IsVerticesCall)
    IN  /\ Len(builder.vertices) = Len(added)
        /\ \A k \in 1..Len(added) :
              builder.vertices[k] =
                  <<Bytes(added[k].arg.data,
                          Usize(0, added[k].arg.count * added[k].arg.format.stride)),
                    added[k].arg.format>>
        /\ builder.indices =
              IF CallsOf("indices") = {} THEN None
              ELSE LET i == LastCall("indices").arg
                   IN  IF i.kind = "None" THEN None
                       ELSE Some(<<Bytes(i.data, Usize(0, i.count * IndexWidth(i.kind))), i.kind>>)
        /\ builder.prim =
              IF CallsOf("prim") = {} THEN "TriangleList"
              ELSE LastCall("prim").arg

\* C17 witness: indices were staged by with_indices and then withdrawn by
\* set_indices(Indices::None), around a with_vertices call.
C17_Witness ==
    /\ Len(ops) = 3
    /\ ops[1].op = "indices" /\ ops[1].variant = "with" /\ ops[1].arg.kind = "U16"
    /\ ops[2].op = "vertices" /\ ops[2].variant = "with"
    /\ ops[3].op = "indices" /\ ops[3].variant = "set" /\ ops[3].arg.kind = "None"

---------------------------------------------------------------------------
(* Properties of Bind::draw (SpecDraw).                                    *)

\* positions of the encoder that hold a command of the given name
Issued(c) == {k \in 1..Len(encoder) : encoder[k].cmd = c}

\* C13: draw issues bind_vertex_buffers first; for an Indexed bind then
\* exactly one bind_index_buffer followed by exactly one draw_indexed over
\* 0..count, base vertex 0, instances 0..1, and no plain draw; for an
\* Unindexed bind exactly one draw over 0..count, instances 0..1, and no
\* bind_index_buffer or draw_indexed.
C13_DrawCommands ==
    dpc = "done" =>
        /\ Issued("bind_vertex_buffers") = {1}
        /\ encoder[1].set = dvertex
        /\ IF dbind.kind = "Indexed"
           THEN /\ Issued("bind_index_buffer") = {2}
                /\ encoder[2].view = dbind.index[1]
                /\ Issued("draw_indexed") = {3}
                /\ encoder[3].indices = Range(0, dbind.count)
                /\ encoder[3].base_vertex = 0
                /\ encoder[3].instances = Range(0, 1)
                /\ Issued("draw") = {}
                /\ Len(encoder) = 3
           ELSE /\ Issued("draw") = {2}
                /\ encoder[2].vertices = Range(0, dbind.count)
                /\ encoder[2].instances = Range(0, 1)
                /\ Issued("bind_index_buffer") = {}
                /\ Issued("draw_indexed") = {}
                /\ Len(encoder) = 2

\* C13 witness: an Indexed bind over a non-empty binding set was drawn
C13_Witness ==
    /\ dpc = "done" /\ dbind.kind = "Indexed" /\ Len(dvertex) = 2
    /\ Issued("draw_indexed") # {}

---------------------------------------------------------------------------
(* Properties of MeshBuilder::build and Mesh::dispose (SpecBuild).         *)

\* C11: after a successful build, whatever the sequence of vertex layers
\* added to the builder, the Mesh's vertex buffers are sorted ascending by
\* format, as Mesh::bind asserts.
C11_BuiltSorted ==
    bpc = "built" => is_slice_sorted_by_format(mesh[1].vbufs)

\* a <= b for two usize values
UsizeLeq(a, b) == a.hi < b.hi \/ (a.hi = b.hi /\ a.lo <= b.lo)

\* c = floor(n / d): c * d <= n < (c + 1) * d
IsFloor(c, n, d) ==
    /\ UsizeLeq(Usize(0, c * d), n)
    /\ ~UsizeLeq(Usize(0, (c + 1) * d), n)

\* C12: build derives the counts by truncating division: every VertexBuffer
\* has vertex_count = floor(byte_length / format.stride) and the IndexBuffer
\* index_count = floor(byte_length / index_width), width 2 for 16-bit and 4
\* for 32-bit indices; a remainder is no error.
C12_TruncatingDivision ==
    bpc = "built" =>
        /\ Len(mesh[1].vbufs) = Len(builder.vertices)
        /\ \A k \in 1..Len(builder.vertices) :
              IsFloor(mesh[1].vbufs[k].len, builder.vertices[k][1].len,
                      builder.vertices[k][2].stride)
        /\ (builder.indices = None) = (mesh[1].ibuf = None)
        /\ builder.indices # None =>
              IsFloor(mesh[1].ibuf[1].len, builder.indices[1][1].len,
                      IF builder.indices[1][2] = "U16" THEN 2 ELSE 4)

\* the factory calls of build call number a and of the dispose of its mesh
LogOf(a) == SelectSeq(flog, LAMBDA c : c.build = a)

\* the layers the builder stages: the vertex layers and the index layer
StagedCount == Len(builder.vertices) + (IF builder.indices = None THEN 0 ELSE 1)

\* C14: when build fails, it returns the error of the first failing
\* create_buffer or upload_buffer call, that call is the last one it makes
\* (nothing is issued for a later layer, nor for the index layer after a
\* vertex layer failed), and it destroys none of the buffers it created.
C14_FailurePolicy ==
    bpc = "failed" =>
        LET L == LogOf(builds)
        IN  /\ L # <<>>
            /\ \A k \in 1..Len(L) : L[k].call \in {"create_buffer", "upload_buffer"}
            /\ \A k \in 1..(Len(L) - 1) : L[k].result.ok
            /\ ~L[Len(L)].result.ok
            /\ berr = Some(L[Len(L)].result.val)
            /\ mesh = None
            /\ Len(L) <= 2 * (bi + 1)
            /\ bi < Len(builder.vertices) =>
                  \A k \in 1..Len(L) :
                      /\ L[k].call = "create_buffer" => L[k].usage = VertexUsage
                      /\ L[k].call = "upload_buffer" => L[k].access = "VERTEX_BUFFER_READ"

\* C14 witness: the upload of the second of two vertex layers failed, with
\* an index layer staged and the buffer of the first layer already created
C14_Witness ==
    /\ bpc = "failed" /\ builds = 1 /\ Len(flog) = 4
    /\ Len(builder.vertices) = 2 /\ builder.indices # None
    /\ flog[4].call = "upload_buffer" /\ ~flog[4].result.ok

\* handles the factory returned to build call number a
Created(a) ==
    {LogOf(a)[k].result.val :
        k \in {j \in 1..Len(LogOf(a)) :
                 LogOf(a)[j].call = "create_buffer" /\ LogOf(a)[j].result.ok}}

\* positions in the calls of number a at which buffer h is destroyed
Destroyed(a, h) ==
    {k \in 1..Len(LogOf(a)) :
        LogOf(a)[k].call = "destroy_buffer" /\ LogOf(a)[k].buffer = h}

AllHandles == 1..(nextHandle - 1)

\* C15: after a successful build followed by dispose, every buffer that
\* build created, one per vertex layer plus the index buffer if present,
\* has been passed to destroy_buffer exactly once and no other buffer is
\* destroyed; before dispose none of the mesh's buffers is destroyed.
C15_Lifecycle ==
    /\ bpc = "disposed" =>
          /\ Cardinality(Created(builds)) = StagedCount
          /\ \A h \in Created(builds) : Cardinality(Destroyed(builds, h)) = 1
          /\ \A h \in AllHandles \ Created(builds) : Destroyed(builds, h) = {}
    /\ bpc = "built" =>
          \A h \in AllHandles : Destroyed(builds, h) = {}

\* C15 witness: a mesh of two vertex buffers and an index buffer, disposed
C15_Witness ==
    /\ bpc = "disposed"
    /\ Len(mesh[1].vbufs) = 2 /\ mesh[1].ibuf # None

\* C16: on a successful build the factory sees, for each staged vertex
\* layer in the order added, one create_buffer of the layer's byte length
\* immediately followed by one upload_buffer of the layer's bytes at offset
\* 0, and only after all of them one such pair for the index layer if one
\* is staged; the Mesh's vertex buffers are in the order of the layers and
\* its topology is the builder's.
C16_FactorySequence ==
    bpc = "built" =>
        LET L == LogOf(builds)
            n == Len(builder.vertices)
            layer(k) == IF k <= n THEN builder.vertices[k] ELSE builder.indices[1]
        IN  /\ Len(L) = 2 * StagedCount
            /\ \A k \in 1..StagedCount :
                  /\ L[2 * k - 1].call = "create_buffer"
                  /\ L[2 * k - 1].size = layer(k)[1].len
                  /\ L[2 * k - 1].usage = (IF k <= n THEN VertexUsage ELSE IndexUsage)
                  /\ L[2 * k - 1].result.ok
                  /\ L[2 * k].call = "upload_buffer"
                  /\ L[2 * k].buffer = L[2 * k - 1].result.val
                  /\ L[2 * k].data = layer(k)[1]
                  /\ L[2 * k].offset = 0
                  /\ L[2 * k].result.ok
            /\ Len(mesh[1].vbufs) = n
            /\ \A k \in 1..n :
                  /\ mesh[1].vbufs[k].buffer = L[2 * k - 1].result.val
                  /\ mesh[1].vbufs[k].format = builder.vertices[k][2]
            /\ builder.indices # None =>
                  /\ mesh[1].ibuf # None
                  /\ mesh[1].ibuf[1].buffer = L[2 * n + 1].result.val
                  /\ mesh[1].ibuf[1].index_type = builder.indices[1][2]
            /\ mesh[1].prim = builder.prim

\* C16 witness: two vertex layers of different formats and an index layer
\* were built
C16_Witness ==
    /\ bpc = "built" /\ Len(builder.vertices) = 2
    /\ builder.vertices[1][2] # builder.vertices[2][2]
    /\ builder.indices # None /\ builder.prim = "LineList"

\* successful create_buffer calls in the whole history of the factory
Creates ==
    {k \in 1..Len(flog) : flog[k].call = "create_buffer" /\ flog[k].result.ok}

\* C18 as stated: a builder is consumed by build, no second build of the
\* same builder occurs, and one builder never causes more than one set of
\* buffers to be allocated.
C18_Original ==
    /\ builds <= 1
    /\ Cardinality(Creates) <= StagedCount

\* the data the builder stages
StagedData ==
    {builder.vertices[k][1] : k \in 1..Len(builder.vertices)}
    \cup (IF builder.indices = None THEN {} ELSE {builder.indices[1][1]})

\* C18 as the code has it: build borrows the builder.  After any number of
\* build attempts, successful or not, the builder still stages the data
\* every attempt uploaded; every attempt allocates at most one buffer per
\* staged layer, and no buffer is handed out twice.
C18_BuilderBorrowed ==
    /\ \A k \in 1..Len(flog) :
          flog[k].call = "upload_buffer" => flog[k].data \in StagedData
    /\ \A a \in 1..builds : Cardinality(Created(a)) <= StagedCount
    /\ \A j, k \in Creates :
          flog[j].result.val = flog[k].result.val => j = k

\* C18 witness: the same builder was built twice with success, each build
\* allocating its own three buffers
C18_Witness ==
    /\ builds = 2 /\ bpc = "built" /\ StagedCount = 3
    /\ Cardinality(Created(1)) = 3 /\ Cardinality(Created(2)) = 3
    /\ Created(1) \cap Created(2) = {}

=============================================================================
